---- MODULE Spec2Model ----
(***************************************************************************)
(* Model of the Marqeta JIT-funding demo: the in-memory resource registry, *)
(* the setup orchestration (lib/marqeta.ts), the command dispatcher        *)
(* (pages/api/marqeta/setup.ts) and the payment handlers (nfc-pay,         *)
(* one-click/QR pay, the PIN-gated handlers).                              *)
(*                                                                         *)
(* Conventions.  JavaScript strings that the code inspects (PAN, PIN, the  *)
(* amount string) are sequences of one-character strings; opaque message   *)
(* texts are TLA+ strings.  A JavaScript number is the integer count of    *)
(* 1/Scale units (Scale = 1000), so 10.00 is 10000 and 1000 is 1000000.    *)
(* A token is a pair <<prefix, id>>; generateToken's timestamp and random  *)
(* suffix are the id, which is fresh for every setup run.                  *)
(***************************************************************************)
EXTENDS Integers, Sequences, FiniteSets, TLC

(***************************************************************************)
(* Bounds                                                                  *)
(***************************************************************************)
\* number of setup runs that may be started in one behaviour
MaxRuns == 2

\* key presses on the PIN entry page
MaxPresses == 8

\* the request handlers that may be in flight in one server process
Procs == {"p1", "p2"}

(***************************************************************************)
(* JavaScript values                                                       *)
(***************************************************************************)
\* resolution of the number model: one unit is 1/Scale
Scale == 10 * 10 * 10

Num(whole, frac) == whole * Scale + frac

Digits == {"0", "1", "2", "3", "4", "5", "6", "7", "8", "9"}

DigitChar(d) ==
    CASE d = 0 -> "0" [] d = 1 -> "1" [] d = 2 -> "2" [] d = 3 -> "3"
      [] d = 4 -> "4" [] d = 5 -> "5" [] d = 6 -> "6" [] d = 7 -> "7"
      [] d = 8 -> "8" [] d = 9 -> "9"

RECURSIVE NatToString(_)
NatToString(n) ==
    IF n < 10 THEN <<DigitChar(n)>>
    ELSE NatToString(n \div 10) \o <<DigitChar(n % 10)>>

RECURSIVE FracDigits(_, _)
\* the digits of f/width after the decimal point, without trailing zeros
FracDigits(f, width) ==
    IF f = 0 THEN <<>>
    ELSE <<DigitChar(f \div (width \div 10))>>
         \o FracDigits(f % (width \div 10), width \div 10)

\* Number.prototype.toString for the numbers of the model
NumToString(n) ==
    LET a    == IF n < 0 THEN 0 - n ELSE n
        sign == IF n < 0 THEN <<"-">> ELSE <<>>
        int  == NatToString(a \div Scale)
        frac == FracDigits(a % Scale, Scale)
    IN  sign \o int \o (IF frac = <<>> THEN <<>> ELSE <<".">> \o frac)

\* Math.round: nearest integer, halves towards plus infinity
MathRound(n) == ((n + (Scale \div 2)) \div Scale) * Scale

\* amount * 100
Times100(n) == n * 100

\* amount / 100; exact for the amounts of the model, which are multiples of
\* 100 units wherever they are divided
Div100(n) == n \div 100

\* a JavaScript value that is a string, an object of an error body, or
\* undefined
JStr(s) == [type |-> "string", text |-> s, error_message |-> "", message |-> ""]

JObj(em, m) == [type |-> "object", text |-> "", error_message |-> em, message |-> m]

JUndefined == [type |-> "undefined", text |-> "", error_message |-> "", message |-> ""]

Truthy(v) == v.type = "object" \/ (v.type = "string" /\ v.text # "")

\* a || b
JOr(a, b) == IF Truthy(a) THEN a ELSE b

\* the property p of v, where p is "message" or "error_message"
JProp(v, p) ==
    IF v.type # "object" THEN JUndefined
    ELSE IF p = "message"
         THEN (IF v.message = "" THEN JUndefined ELSE JStr(v.message))
         ELSE (IF v.error_message = "" THEN JUndefined ELSE JStr(v.error_message))

(***************************************************************************)
(* Tokens and entities                                                     *)
(***************************************************************************)
NoToken == <<"undefined", 0>>

\* generateToken(prefix): prefix, truncated timestamp and random suffix
generateToken(prefix, id) == <<prefix, id>>

SandboxToken == <<"sandbox_program_funding", 0>>

USER_BALANCE_LIMIT == 10000

Pan1 == <<"5","1","1","2","3","4","5","1","2","3","4","5","1","2","3","4">>

Pan2 == <<"4","1","1","1","1","1","1","1","1","1","1","1","1","1","1","1">>

Pan3 == <<"4","0","0","0","0","0","0","0","0","0","0","0","0","0","0","2">>

\* the card number the platform issues for the card of run id
PanOf(id) == CASE id = 1 -> Pan1 [] id = 2 -> Pan2 [] OTHER -> Pan3

\* an empty registry slot (null)
Null ==
    [kind |-> "null", token |-> NoToken, name |-> "",
     funding_source_token |-> NoToken, user_token |-> NoToken,
     card_product_token |-> NoToken, pan |-> <<>>,
     balance_limit |-> 0, amount_limit |-> 0]

Entity(kind, token, name) == [Null EXCEPT !.kind = kind, !.token = token, !.name = name]

defaultFundingSource ==
    Entity("fundingSource", SandboxToken, "Default Sandbox Program Funding")

\* const resources = { fundingSource: null, ... }
EmptyResources ==
    [fundingSource |-> Null, cardProduct |-> Null, user |-> Null,
     card |-> Null, velocityControl |-> Null]

Slots == {"fundingSource", "cardProduct", "user", "card", "velocityControl"}

(***************************************************************************)
(* The card-issuing platform and the request client                        *)
(***************************************************************************)
EmptyObject == [kind |-> "empty"]

\* what fetch produces for one outbound call: a rejection (network error)
\* or a response with a status, a body and whether the body parses as JSON
NetworkError ==
    [net |-> TRUE, ok |-> FALSE, status |-> 0, parseable |-> FALSE,
     body |-> EmptyObject, statusText |-> ""]

HttpReply(ok, status, parseable, body, statusText) ==
    [net |-> FALSE, ok |-> ok, status |-> status, parseable |-> parseable,
     body |-> body, statusText |-> statusText]

\* the failing replies of the platform
ErrReplies ==
    { NetworkError,
      HttpReply(FALSE, 404, TRUE, JObj("Resource not found", ""), "Not Found"),
      HttpReply(FALSE, 409, TRUE, JObj("", "Token already exists"), "Conflict"),
      HttpReply(FALSE, 500, FALSE, EmptyObject, "Internal Server Error") }

\* a thrown value: {status, error} of marqetaRequest or an Error(message)
Thrown(status, error, message) ==
    [status |-> status, error |-> error, message |-> message]

NoThrown == Thrown(0, JUndefined, JUndefined)

JError(msg) == Thrown(0, JUndefined, JStr(msg))

\* variant: an error status is returned like a success
marqetaRequest_Lenient(reply) ==
    IF reply.net
    THEN [threw |-> TRUE, thrown |-> JError("fetch failed"),
          status |-> 0, data |-> EmptyObject]
    ELSE [threw |-> FALSE, thrown |-> NoThrown, status |-> reply.status,
          data |-> IF reply.parseable THEN reply.body ELSE EmptyObject]

\* marqetaRequest(method, path, data), applied to what fetch produced
marqetaRequest(reply) ==
    IF reply.net
    THEN [threw |-> TRUE, thrown |-> JError("fetch failed"),
          status |-> 0, data |-> EmptyObject]
    ELSE IF ~reply.ok
    THEN [threw |-> TRUE,
          thrown |-> Thrown(reply.status,
                            IF reply.parseable THEN reply.body
                            ELSE JObj("", reply.statusText),
                            JUndefined),
          status |-> reply.status, data |-> EmptyObject]
    ELSE [threw |-> FALSE, thrown |-> NoThrown, status |-> reply.status,
          data |-> IF reply.parseable THEN reply.body ELSE EmptyObject]

\* an outbound call
Call(api, body) == [api |-> api, body |-> body]

\* the entity the platform returns for a creation request: the request
\* echoed, with the fields the platform assigns
Created(call) ==
    CASE call.api = "POST /fundingsources/program" ->
           Entity("fundingSource", call.body.token, call.body.name)
      [] call.api = "POST /cardproducts" ->
           [Entity("cardProduct", call.body.token, call.body.name)
              EXCEPT !.funding_source_token = call.body.funding_source_token]
      [] call.api = "POST /users" ->
           [Entity("user", call.body.token, "OneClick User")
              EXCEPT !.balance_limit = call.body.balance_limit]
      [] call.api = "POST /cards" ->
           [Entity("card", call.body.token, "")
              EXCEPT !.user_token = call.body.user_token,
                     !.card_product_token = call.body.card_product_token,
                     !.pan = PanOf(call.body.token[2])]
      [] call.api = "POST /velocitycontrols" ->
           [Entity("velocityControl", <<"vc", call.body.user_token[2]>>, call.body.name)
              EXCEPT !.user_token = call.body.user_token,
                     !.amount_limit = call.body.amount_limit]
      [] OTHER -> Null

\* the replies the platform can give to a creation or probe call
SetupReplies(call) ==
    ErrReplies \cup
    { HttpReply(TRUE, 201, TRUE,
                IF call.api = "GET /cardproducts?count=1"
                THEN [kind |-> "list"] ELSE Created(call), "Created") }

(***************************************************************************)
(* State                                                                   *)
(***************************************************************************)
VARIABLES
    resources,  \* the module-level registry of lib/marqeta.ts
    runs,       \* number of setup runs started so far
    overlap,    \* whether requests may be handled while another is in flight
    pc,         \* per handler: "idle", the call it awaits, or "done"
    req,        \* per handler: the request body it was called with
    loc,        \* per handler: its local variables
    calls,      \* per handler: the outbound calls it has issued, in order
    outs,       \* per handler: for each call that returned, whether it succeeded
    resp,       \* per handler: the response it has sent
    pre,        \* per handler: the registry as it was when the request arrived
    client,     \* what the caller has learnt from the responses it received
    request,    \* one application of marqetaRequest: what fetch gave, the outcome
    held,       \* a value a caller got from getResources, and the registry then
    page        \* the PIN entry page: its React state, timers and open requests

vars ==
    <<resources, runs, overlap, pc, req, loc, calls, outs, resp, pre, client,
      request, held, page>>

\* the state outside the handlers and the registry
aux == <<request, held, page>>

Methods == {"POST", "GET"}

NoReq ==
    [handler |-> "none", method |-> "POST", action |-> "", pan |-> <<>>,
     pin |-> <<>>, cardToken |-> NoToken, hasAmount |-> FALSE, amount |-> 0,
     autoClear |-> "undefined", webhookEndpoint |-> "",
     transactionToken |-> NoToken, userToken |-> NoToken]

\* the value returned by setupJITFunding
NoResult ==
    [returned |-> FALSE, success |-> FALSE, error |-> JUndefined,
     fundingSource |-> Null, cardProduct |-> Null, user |-> Null,
     card |-> Null, velocityControl |-> Null]

NoLocals ==
    [id |-> 0, fundingSource |-> Null, cardProduct |-> Null, user |-> Null,
     card |-> Null, velocityControl |-> Null, result |-> NoResult,
     amountInCents |-> 0, transaction |-> EmptyObject]

\* res.status(status).json({success, error, data, warning, ...}); a field
\* the object does not have is "undefined" / JUndefined / EmptyObject / ""
Response(status, success, error, data, warning) ==
    [status |-> status, success |-> success, error |-> error,
     data |-> data, warning |-> warning, details |-> JUndefined,
     hint |-> "", message |-> ""]

NoResp == Response(0, "undefined", JUndefined, EmptyObject, "")

\* the caller knows no card and no transaction
NoCard == [token |-> NoToken, pan |-> <<>>]

NoClient == [card |-> NoCard, prevPan |-> <<>>, txn |-> NoToken]

\* the request bodies without the overlap flag
InitRequests ==
    /\ resources = EmptyResources
    /\ runs = 0
    /\ pc = [p \in Procs |-> "idle"]
    /\ req = [p \in Procs |-> NoReq]
    /\ loc = [p \in Procs |-> NoLocals]
    /\ calls = [p \in Procs |-> <<>>]
    /\ outs = [p \in Procs |-> <<>>]
    /\ resp = [p \in Procs |-> NoResp]
    /\ pre = [p \in Procs |-> EmptyResources]
    /\ client = NoClient

\* marqetaRequest has not been applied
NoOutcome ==
    [threw |-> FALSE, thrown |-> NoThrown, status |-> 0, data |-> EmptyObject]

NoRequest == [reply |-> NetworkError, called |-> FALSE, result |-> NoOutcome]

\* no caller holds a value of getResources
NotHeld == [ref |-> "none", at |-> EmptyResources]

\* NFCPaymentPage as mounted: useState(''), useState(false), no timer set,
\* no request sent, no key pressed
MountedPage ==
    [pin |-> <<>>, isProcessing |-> FALSE, success |-> FALSE, timers |-> <<>>,
     inflight |-> <<>>, presses |-> 0]

InitAux ==
    /\ request = NoRequest
    /\ held = NotHeld
    /\ page = MountedPage

Init ==
    /\ InitRequests
    /\ InitAux
    /\ overlap = FALSE

Last(s) == s[Len(s)]

\* a request can be taken up by an idle handler; without overlap only when
\* no other request is in flight
CanStart(p) ==
    /\ pc[p] = "idle"
    /\ overlap \/ (p = "p1" /\ \A q \in Procs : pc[q] = "idle")

\* the handler receives request r and issues its first outbound call
Begin(p, r, locals, call, awaiting) ==
    /\ req' = [req EXCEPT ![p] = r]
    /\ loc' = [loc EXCEPT ![p] = locals]
    /\ calls' = [calls EXCEPT ![p] = <<call>>]
    /\ pc' = [pc EXCEPT ![p] = awaiting]
    /\ pre' = [pre EXCEPT ![p] = resources]
    /\ UNCHANGED <<resources, resp, overlap, outs, client, aux>>

\* the handler receives request r and answers without any outbound call
Reject(p, r, response) ==
    /\ req' = [req EXCEPT ![p] = r]
    /\ resp' = [resp EXCEPT ![p] = response]
    /\ pc' = [pc EXCEPT ![p] = "done"]
    /\ pre' = [pre EXCEPT ![p] = resources]
    /\ UNCHANGED <<resources, runs, overlap, loc, calls, outs, client, aux>>

\* the awaited call has returned (ok: without throwing); the handler issues
\* its next outbound call and awaits it
Continue(p, ok, locals, call, awaiting) ==
    /\ loc' = [loc EXCEPT ![p] = locals]
    /\ outs' = [outs EXCEPT ![p] = Append(@, ok)]
    /\ calls' = [calls EXCEPT ![p] = Append(@, call)]
    /\ pc' = [pc EXCEPT ![p] = awaiting]
    /\ UNCHANGED <<runs, overlap, req, resp, pre, client, aux>>

\* the awaited call has returned (ok: without throwing); the handler sends
\* its response
Respond(p, ok, locals, response) ==
    /\ loc' = [loc EXCEPT ![p] = locals]
    /\ outs' = [outs EXCEPT ![p] = Append(@, ok)]
    /\ resp' = [resp EXCEPT ![p] = response]
    /\ pc' = [pc EXCEPT ![p] = "done"]
    /\ UNCHANGED <<runs, overlap, req, calls, pre, client, aux>>

\* if (req.method !== 'POST') return res.status(405).json({error})
MethodNotAllowed == Response(405, "undefined", JStr("Method not allowed"), EmptyObject, "")

\* what the caller knows once it has the response of p: the card of the
\* latest successful setup (and the PAN of the one before), and the
\* transaction it got by simulating 10.00 on that card
Learnt(p) ==
    IF resp[p].success = "true" /\ resp[p].data.kind = "setup"
    THEN [card |-> [token |-> resp[p].data.card.token,
                    pan |-> resp[p].data.card.pan],
          prevPan |-> client.card.pan, txn |-> NoToken]
    ELSE IF /\ resp[p].success = "true"
            /\ req[p].handler = "setup"
            /\ req[p].action = "simulate"
            /\ req[p].cardToken = client.card.token
            /\ req[p].amount = Num(10, 0)
            /\ resp[p].data.kind = "auth"
            /\ resp[p].data.transaction.state = "PENDING"
    THEN [client EXCEPT !.txn = resp[p].data.transaction.token]
    ELSE client

\* the client has the response; the handler instance is gone
Close(p) ==
    /\ pc[p] = "done"
    /\ client' = Learnt(p)
    /\ pc' = [pc EXCEPT ![p] = "idle"]
    /\ req' = [req EXCEPT ![p] = NoReq]
    /\ loc' = [loc EXCEPT ![p] = NoLocals]
    /\ calls' = [calls EXCEPT ![p] = <<>>]
    /\ outs' = [outs EXCEPT ![p] = <<>>]
    /\ resp' = [resp EXCEPT ![p] = NoResp]
    /\ pre' = [pre EXCEPT ![p] = EmptyResources]
    /\ UNCHANGED <<resources, runs, overlap, aux>>

(***************************************************************************)
(* Setup orchestration: setupJITFunding and the `setup` action             *)
(***************************************************************************)
ProbeCall == Call("GET /cardproducts?count=1", EmptyObject)

\* variant: the result of the probe is ignored
testConnection_Ignored(r) == TRUE

\* testConnection: true iff the probe request did not throw
testConnection(r) == ~r.threw

FundingSourceCall(id) ==
    Call("POST /fundingsources/program",
         [token |-> generateToken("fund", id), name |-> "JIT-OneClick"])

\* createProgramFundingSource: the created funding source, or the sandbox
\* default when the request threw
createProgramFundingSource(r) ==
    IF r.threw THEN defaultFundingSource ELSE r.data

\* variant: the card product references the token that was requested for the
\* funding source instead of the token of the funding source in use
CardProductCall_Requested(id, fundingSourceToken) ==
    Call("POST /cardproducts",
         [token |-> generateToken("prod", id), name |-> "OneClick-Card",
          payment_instrument |-> "VIRTUAL_PAN", ecommerce |-> TRUE,
          atm |-> FALSE, activate_upon_issue |-> TRUE,
          funding_source_token |-> generateToken("fund", id),
          refunds_destination |-> "PROGRAM_FUNDING_SOURCE", enabled |-> TRUE])

CardProductCall(id, fundingSourceToken) ==
    Call("POST /cardproducts",
         [token |-> generateToken("prod", id), name |-> "OneClick-Card",
          payment_instrument |-> "VIRTUAL_PAN", ecommerce |-> TRUE,
          atm |-> FALSE, activate_upon_issue |-> TRUE,
          funding_source_token |-> fundingSourceToken,
          refunds_destination |-> "PROGRAM_FUNDING_SOURCE", enabled |-> TRUE])

UserCall(id) ==
    Call("POST /users",
         [token |-> generateToken("user", id), first_name |-> "OneClick",
          balance_limit |-> USER_BALANCE_LIMIT])

CardCall(id, userToken, cardProductToken) ==
    Call("POST /cards",
         [token |-> generateToken("card", id), user_token |-> userToken,
          card_product_token |-> cardProductToken,
          show_pan |-> TRUE, show_cvv_number |-> TRUE])

\* variant: the limit is a tenth of the configured one
VelocityControlCall_Tenth(userToken) ==
    Call("POST /velocitycontrols",
         [name |-> "Daily Spend Limit", user_token |-> userToken,
          amount_limit |-> USER_BALANCE_LIMIT \div 10, currency_code |-> "USD",
          velocity_window |-> "DAY", active |-> TRUE])

\* createVelocityControl(userToken): the request
VelocityControlCall(userToken) ==
    Call("POST /velocitycontrols",
         [name |-> "Daily Spend Limit", user_token |-> userToken,
          amount_limit |-> USER_BALANCE_LIMIT, currency_code |-> "USD",
          velocity_window |-> "DAY", active |-> TRUE])

\* the catch block of setupJITFunding
SetupFailure(thrown) ==
    [NoResult EXCEPT !.returned = TRUE, !.success = FALSE,
                     !.error = JOr(thrown.error, thrown.message)]

\* variant: the returned entities are read back from the registry
SetupSuccess_FromRegistry(l, velocityControl) ==
    [returned |-> TRUE, success |-> TRUE, error |-> JUndefined,
     fundingSource |-> resources.fundingSource,
     cardProduct |-> resources.cardProduct,
     user |-> resources.user, card |-> resources.card,
     velocityControl |-> velocityControl]

\* the return statement of setupJITFunding
SetupSuccess(l, velocityControl) ==
    [returned |-> TRUE, success |-> TRUE, error |-> JUndefined,
     fundingSource |-> l.fundingSource, cardProduct |-> l.cardProduct,
     user |-> l.user, card |-> l.card, velocityControl |-> velocityControl]

\* the response of the `setup` action for a result of setupJITFunding
SetupResponse(result) ==
    IF result.success
    THEN Response(200, "true", JUndefined,
                  [kind |-> "setup",
                   fundingSource |-> [token |-> result.fundingSource.token,
                                      name |-> result.fundingSource.name],
                   cardProduct |-> [token |-> result.cardProduct.token,
                                    name |-> result.cardProduct.name],
                   user |-> [token |-> result.user.token,
                             balanceLimit |-> USER_BALANCE_LIMIT],
                   card |-> [token |-> result.card.token, pan |-> result.card.pan],
                   velocityControl |-> [token |-> result.velocityControl.token,
                                        amountLimit |-> USER_BALANCE_LIMIT]],
                  "")
    ELSE Response(500, "false", result.error, EmptyObject, "")

\* variant: the abort deletes the card product the run has created
SetupAbort_Compensating(p, thrown) ==
    LET result == SetupFailure(thrown)
    IN  /\ loc' = [loc EXCEPT ![p].result = result]
        /\ outs' = [outs EXCEPT ![p] = Append(@, FALSE)]
        /\ calls' = [calls EXCEPT ![p] =
                        IF loc[p].cardProduct = Null THEN @
                        ELSE Append(@, Call("DELETE /cardproducts/{token}",
                                            [token |-> loc[p].cardProduct.token]))]
        /\ resp' = [resp EXCEPT ![p] = SetupResponse(result)]
        /\ pc' = [pc EXCEPT ![p] = "done"]
        /\ UNCHANGED <<runs, overlap, req, pre, client, aux>>

\* setupJITFunding returns a failure and the handler answers with it
SetupAbort(p, thrown) ==
    LET result == SetupFailure(thrown)
    IN  Respond(p, FALSE, [loc[p] EXCEPT !.result = result], SetupResponse(result))

\* handler, action === 'setup': setupJITFunding starts with the probe
HandlerSetup(p) ==
    /\ CanStart(p)
    /\ \E method \in Methods :
         LET r == [NoReq EXCEPT !.handler = "setup", !.method = method,
                                !.action = "setup"]
         IN  IF method # "POST"
             THEN Reject(p, r, MethodNotAllowed)
             ELSE /\ runs < MaxRuns
                  /\ runs' = runs + 1
                  /\ Begin(p, r, [NoLocals EXCEPT !.id = runs + 1], ProbeCall,
                           "testConnection")

\* the probe has returned
TestConnectionReturn(p) ==
    /\ pc[p] = "testConnection"
    /\ \E reply \in SetupReplies(Last(calls[p])) :
         LET r == marqetaRequest(reply)
         IN  IF ~testConnection(r)
             THEN /\ SetupAbort(p, JError("Failed to connect to Marqeta API. Please check your credentials."))
                  /\ UNCHANGED resources
             ELSE /\ Continue(p, ~r.threw, loc[p], FundingSourceCall(loc[p].id),
                              "createProgramFundingSource")
                  /\ UNCHANGED resources

\* variant: a failed funding-source request aborts the run like any other
CreateProgramFundingSourceReturn_Abort(p) ==
    /\ pc[p] = "createProgramFundingSource"
    /\ \E reply \in SetupReplies(Last(calls[p])) :
         LET r == marqetaRequest(reply)
         IN  IF r.threw
             THEN SetupAbort(p, r.thrown) /\ UNCHANGED resources
             ELSE /\ resources' = [resources EXCEPT !.fundingSource = r.data]
                  /\ Continue(p, TRUE, [loc[p] EXCEPT !.fundingSource = r.data],
                              CardProductCall(loc[p].id, r.data.token),
                              "createCardProduct")

\* the funding-source request has returned
CreateProgramFundingSourceReturn(p) ==
    /\ pc[p] = "createProgramFundingSource"
    /\ \E reply \in SetupReplies(Last(calls[p])) :
         LET r == marqetaRequest(reply)
             fundingSource == createProgramFundingSource(r)
         IN  /\ resources' = [resources EXCEPT !.fundingSource = fundingSource]
             /\ Continue(p, ~r.threw,
                         [loc[p] EXCEPT !.fundingSource = fundingSource],
                         CardProductCall(loc[p].id, fundingSource.token),
                         "createCardProduct")

\* the card-product request has returned
CreateCardProductReturn(p) ==
    /\ pc[p] = "createCardProduct"
    /\ \E reply \in SetupReplies(Last(calls[p])) :
         LET r == marqetaRequest(reply)
         IN  IF r.threw
             THEN SetupAbort(p, r.thrown) /\ UNCHANGED resources
             ELSE /\ resources' = [resources EXCEPT !.cardProduct = r.data]
                  /\ Continue(p, TRUE, [loc[p] EXCEPT !.cardProduct = r.data],
                              UserCall(loc[p].id), "createUser")

\* the user request has returned
CreateUserReturn(p) ==
    /\ pc[p] = "createUser"
    /\ \E reply \in SetupReplies(Last(calls[p])) :
         LET r == marqetaRequest(reply)
         IN  IF r.threw
             THEN SetupAbort(p, r.thrown) /\ UNCHANGED resources
             ELSE /\ resources' = [resources EXCEPT !.user = r.data]
                  /\ Continue(p, TRUE, [loc[p] EXCEPT !.user = r.data],
                              CardCall(loc[p].id, r.data.token,
                                       loc[p].cardProduct.token),
                              "createCard")

\* variant: the card slot is written only while it is empty
CreateCardReturn_KeepFirst(p) ==
    /\ pc[p] = "createCard"
    /\ \E reply \in SetupReplies(Last(calls[p])) :
         LET r == marqetaRequest(reply)
         IN  IF r.threw
             THEN SetupAbort(p, r.thrown) /\ UNCHANGED resources
             ELSE /\ resources' = IF resources.card = Null
                                  THEN [resources EXCEPT !.card = r.data]
                                  ELSE resources
                  /\ Continue(p, TRUE, [loc[p] EXCEPT !.card = r.data],
                              VelocityControlCall(loc[p].user.token),
                              "createVelocityControl")

\* the card request has returned
CreateCardReturn(p) ==
    /\ pc[p] = "createCard"
    /\ \E reply \in SetupReplies(Last(calls[p])) :
         LET r == marqetaRequest(reply)
         IN  IF r.threw
             THEN SetupAbort(p, r.thrown) /\ UNCHANGED resources
             ELSE /\ resources' = [resources EXCEPT !.card = r.data]
                  /\ Continue(p, TRUE, [loc[p] EXCEPT !.card = r.data],
                              VelocityControlCall(loc[p].user.token),
                              "createVelocityControl")

\* the velocity-control request has returned
CreateVelocityControlReturn(p) ==
    /\ pc[p] = "createVelocityControl"
    /\ \E reply \in SetupReplies(Last(calls[p])) :
         LET r == marqetaRequest(reply)
         IN  IF r.threw
             THEN SetupAbort(p, r.thrown) /\ UNCHANGED resources
             ELSE LET result == SetupSuccess(loc[p], r.data)
                  IN  /\ resources' = [resources EXCEPT !.velocityControl = r.data]
                      /\ Respond(p, TRUE,
                                 [loc[p] EXCEPT !.velocityControl = r.data,
                                                   !.result = result],
                                 SetupResponse(result))

(***************************************************************************)
(* Transactions: simulateTransaction, clearTransaction, getUserBalance     *)
(***************************************************************************)
\* simulateTransaction(cardToken, amount, webhookEndpoint): the request
AuthorizationCall(cardToken, amount, webhookEndpoint) ==
    Call("POST /simulations/cardtransactions/authorization",
         [amount |-> NumToString(amount), card_token |-> cardToken,
          mid |-> "1234567890", network |-> "VISA",
          webhook |-> IF webhookEndpoint # ""
                      THEN [endpoint |-> webhookEndpoint,
                            username |-> "webhook_user",
                            password |-> "webhook_password"]
                      ELSE [endpoint |-> "", username |-> "", password |-> ""]])

\* variant: the amount is sent in cents, as for the authorization
ClearingCall_Cents(transactionToken, amount) ==
    Call("POST /simulations/cardtransactions/authorization.clearing",
         [preceding_related_transaction_token |-> transactionToken,
          amount |-> amount])

\* clearTransaction(transactionToken, amount): the request
ClearingCall(transactionToken, amount) ==
    Call("POST /simulations/cardtransactions/authorization.clearing",
         [preceding_related_transaction_token |-> transactionToken,
          amount |-> Div100(amount)])

\* getUserBalance(userToken): the request
BalanceCall(userToken) == Call("GET /users/{token}", [token |-> userToken])

TxnStates == {"PENDING", "DECLINED"}

Transaction(token, state) == [token |-> token, state |-> state]

\* the body of a successful authorization simulation
AuthData(token, state) ==
    [kind |-> "auth", transaction |-> Transaction(token, state),
     gpa_order |-> "jit_funding"]

\* the replies of the platform to an authorization simulation; the last
\* one is a success whose body carries no transaction
AuthReplies ==
    ErrReplies
    \cup { HttpReply(TRUE, 201, TRUE, AuthData(<<"txn", 1>>, st), "Created") :
             st \in TxnStates }
    \cup { HttpReply(TRUE, 201, FALSE, EmptyObject, "Created") }

ClearingReplies ==
    ErrReplies
    \cup { HttpReply(TRUE, 201, TRUE,
                     [kind |-> "clearing",
                      transaction |-> Transaction(<<"txn", 2>>, "CLEARED")],
                     "Created") }

BalanceReplies ==
    ErrReplies
    \cup { HttpReply(TRUE, 200, TRUE, [kind |-> "user", gpa |-> "balances"], "OK") }

\* transaction.transaction?.token
TransactionToken(data) ==
    IF data.kind = "auth" THEN data.transaction.token ELSE NoToken

(***************************************************************************)
(* Command dispatcher: pages/api/marqeta/setup.ts                          *)
(***************************************************************************)
\* an amount field of a request body: absent, or a number
AmountField(has, val) == [has |-> has, val |-> val]

NoAmount == AmountField(FALSE, 0)

InvalidAmount_MissingOnly(r) == ~r.hasAmount

\* !amount || amount <= 0
InvalidAmount(r) == ~r.hasAmount \/ r.amount = 0 \/ r.amount <= 0

\* the amounts of the requests to the dispatcher
DispatcherAmounts ==
    { NoAmount, AmountField(TRUE, 0), AmountField(TRUE, Num(0 - 1, 0)),
      AmountField(TRUE, Num(10, 0)), AmountField(TRUE, Num(10, 500)),
      AmountField(TRUE, Num(1000, 0)) }

CardTokens == {NoToken, <<"card", 1>>, <<"card", 2>>}

TransactionTokens == {NoToken, <<"txn", 1>>}

UserTokens == {NoToken, <<"user", 1>>}

WebhookEndpoints == {"", "https://webhook.site/demo"}

BadRequest(msg) == Response(400, "undefined", JStr(msg), EmptyObject, "")

\* the hint the dispatcher adds to the message for some statuses
StatusHint(status, msg) ==
    CASE status = 404 -> "Resource not found: " \o msg \o ". This might be due to invalid API credentials or endpoint."
      [] status = 401 -> "Authentication failed: " \o msg \o ". Please check your Marqeta API credentials."
      [] status = 403 -> "Authorization failed: " \o msg \o ". You don't have permission to perform this action."
      [] status = 409 -> "Conflict: " \o msg \o ". A resource with this token may already exist."
      [] OTHER -> msg

\* the catch block of the dispatcher
DispatcherCatch(thrown) ==
    LET e == thrown.error
        msg == IF Truthy(e)
               THEN (IF e.type = "string" THEN e.text
                     ELSE IF e.error_message # "" THEN e.error_message
                     ELSE IF e.message # "" THEN e.message
                     ELSE "Internal server error")
               ELSE IF Truthy(thrown.message) THEN thrown.message.text
               ELSE "Internal server error"
        details == IF Truthy(e) /\ e.type = "object" /\ e.error_message # ""
                   THEN e ELSE JUndefined
    IN  [Response(IF thrown.status # 0 THEN thrown.status ELSE 500, "false",
                  JStr(StatusHint(thrown.status, msg)), EmptyObject, "")
           EXCEPT !.details = details]

\* handler, action === 'simulate'
HandlerSimulate(p) ==
    /\ CanStart(p)
    /\ \E method \in Methods, cardToken \in CardTokens, a \in DispatcherAmounts,
          webhookEndpoint \in WebhookEndpoints :
         LET r == [NoReq EXCEPT !.handler = "setup", !.method = method,
                                !.action = "simulate", !.cardToken = cardToken,
                                !.hasAmount = a.has, !.amount = a.val,
                                !.webhookEndpoint = webhookEndpoint]
         IN  /\ UNCHANGED runs
             /\ IF method # "POST" THEN Reject(p, r, MethodNotAllowed)
                ELSE IF cardToken = NoToken
                THEN Reject(p, r, BadRequest("cardToken is required"))
                ELSE IF InvalidAmount(r)
                THEN Reject(p, r, BadRequest("Valid amount is required"))
                ELSE Begin(p, r, NoLocals,
                           AuthorizationCall(cardToken, r.amount, webhookEndpoint),
                           "simulate")

\* the authorization of the `simulate` action has returned
SimulateReturn(p) ==
    /\ pc[p] = "simulate"
    /\ \E reply \in AuthReplies :
         LET r == marqetaRequest(reply)
         IN  /\ UNCHANGED resources
             /\ IF r.threw
                THEN Respond(p, FALSE, loc[p], DispatcherCatch(r.thrown))
                ELSE Respond(p, TRUE, [loc[p] EXCEPT !.transaction = r.data],
                             [Response(200, "true", JUndefined, r.data, "")
                                EXCEPT !.message = "Transaction simulated successfully"])

ClearResponse_Bare(data) ==
    [Response(200, "true", JUndefined, EmptyObject, "")
       EXCEPT !.message = "Transaction cleared successfully"]

\* the response of the `clear` action: the body of the clearing reply
ClearResponse(data) ==
    [Response(200, "true", JUndefined, data, "")
       EXCEPT !.message = "Transaction cleared successfully"]

\* handler, action === 'clear'
HandlerClear(p) ==
    /\ CanStart(p)
    /\ \E method \in Methods, transactionToken \in TransactionTokens,
          a \in DispatcherAmounts :
         LET r == [NoReq EXCEPT !.handler = "setup", !.method = method,
                                !.action = "clear",
                                !.transactionToken = transactionToken,
                                !.hasAmount = a.has, !.amount = a.val]
         IN  /\ UNCHANGED runs
             /\ IF method # "POST" THEN Reject(p, r, MethodNotAllowed)
                ELSE IF transactionToken = NoToken
                THEN Reject(p, r, BadRequest("transactionToken is required"))
                ELSE IF InvalidAmount(r)
                THEN Reject(p, r, BadRequest("Valid amount is required"))
                ELSE Begin(p, r, NoLocals,
                           ClearingCall(transactionToken, r.amount), "clear")

\* variant: the `clear` action empties the card slot when it has cleared
ClearReturn_Resets(p) ==
    /\ pc[p] = "clear"
    /\ \E reply \in ClearingReplies :
         LET r == marqetaRequest(reply)
         IN  IF r.threw
             THEN /\ UNCHANGED resources
                  /\ Respond(p, FALSE, loc[p], DispatcherCatch(r.thrown))
             ELSE /\ resources' = [resources EXCEPT !.card = Null]
                  /\ Respond(p, TRUE, loc[p], ClearResponse(r.data))

\* the clearing of the `clear` action has returned
ClearReturn(p) ==
    /\ pc[p] = "clear"
    /\ \E reply \in ClearingReplies :
         LET r == marqetaRequest(reply)
         IN  /\ UNCHANGED resources
             /\ IF r.threw
                THEN Respond(p, FALSE, loc[p], DispatcherCatch(r.thrown))
                ELSE Respond(p, TRUE, loc[p], ClearResponse(r.data))

BalanceUnavailable_Failure ==
    Response(500, "false", JStr("Balance information not available"),
             EmptyObject, "")

\* the response of the `balance` action when getUserBalance has thrown
BalanceUnavailable ==
    Response(200, "true", JUndefined, [kind |-> "user", gpa |-> "null"],
             "Balance information not available")

\* handler, action === 'balance'
HandlerBalance(p) ==
    /\ CanStart(p)
    /\ \E method \in Methods, userToken \in UserTokens :
         LET r == [NoReq EXCEPT !.handler = "setup", !.method = method,
                                !.action = "balance", !.userToken = userToken]
         IN  /\ UNCHANGED runs
             /\ IF method # "POST" THEN Reject(p, r, MethodNotAllowed)
                ELSE IF userToken = NoToken
                THEN Reject(p, r, BadRequest("userToken is required"))
                ELSE Begin(p, r, NoLocals, BalanceCall(userToken), "balance")

\* the balance lookup has returned
BalanceReturn(p) ==
    /\ pc[p] = "balance"
    /\ \E reply \in BalanceReplies :
         LET r == marqetaRequest(reply)
         IN  /\ UNCHANGED resources
             /\ IF r.threw
                THEN Respond(p, FALSE, loc[p], BalanceUnavailable)
                ELSE Respond(p, TRUE, loc[p],
                             Response(200, "true", JUndefined, r.data, ""))

\* handler, any other action
HandlerInvalidAction(p) ==
    /\ CanStart(p)
    /\ \E method \in Methods, action \in {"", "delete"} :
         LET r == [NoReq EXCEPT !.handler = "setup", !.method = method,
                                !.action = action]
         IN  /\ UNCHANGED runs
             /\ IF method # "POST" THEN Reject(p, r, MethodNotAllowed)
                ELSE Reject(p, r, BadRequest("Invalid action"))

(***************************************************************************)
(* Payment handlers that authorize and clear: nfc-pay (PAN), one-click-pay *)
(* (QR) and the PIN payment by card token                                  *)
(***************************************************************************)
\* the amounts of the requests to the payment handlers
PaymentAmounts ==
    { NoAmount, AmountField(TRUE, 0), AmountField(TRUE, Num(0 - 1, 0)),
      AmountField(TRUE, Num(10, 0)), AmountField(TRUE, Num(10, 7)) }

Whitespace == {" "}

\* pan.replace(/\s/g, '')
StripWhitespace(s) == SelectSeq(s, LAMBDA c : c \notin Whitespace)

\* /^\d{13,19}$/.test(pan.replace(/\s/g, ''))
panRegexTest(pan) ==
    LET t == StripWhitespace(pan)
    IN  /\ Len(t) >= 13
        /\ Len(t) <= 19
        /\ \A i \in 1..Len(t) : t[i] \in Digits

\* s.slice(-4)
Slice4(s) == IF Len(s) <= 4 THEN s ELSE SubSeq(s, Len(s) - 3, Len(s))

\* cardToken.slice(-4); the characters of a token are not modelled
TokenSlice4(token) == <<token[1]>>

Pan1Spaced ==
    <<"5","1","1","2"," ","3","4","5","1"," ","2","3","4","5"," ","1","2","3","4">>

PanInputs == {<<>>, Pan1, Pan2, Pan1Spaced, <<"5","1","1","2">>, SubSeq(Pan1, 1, 15) \o <<"x">>}

AutoClearInputs == {"undefined", "true", "false"}

autoClear_Always(r) == TRUE

\* const { autoClear = true } = req.body
autoClear(r) == IF r.autoClear = "undefined" THEN TRUE ELSE r.autoClear = "true"

\* variant: the cents are truncated, not rounded
amountInCents_Truncated(amount) == (Times100(amount) \div Scale) * Scale

\* Math.round(amount * 100)
amountInCents(amount) == MathRound(Times100(amount))

NoTransaction == Transaction(NoToken, "undefined")

\* the transaction member of an authorization result, if any
TransactionOf(data) ==
    IF data.kind = "auth" THEN data.transaction ELSE NoTransaction

GpaOrderOf(data) == IF data.kind = "auth" THEN data.gpa_order ELSE "undefined"

\* the data member of a payment response
PayData(transaction, gpa_order, cleared, warning, cardLast4) ==
    [kind |-> "payment", transaction |-> transaction, gpa_order |-> gpa_order,
     cleared |-> cleared, warning |-> warning, cardLast4 |-> cardLast4,
     amount |-> NoAmount]

\* variant: a successful clearing is answered like an authorization alone
ClearedResponse_Unmarked(data, cardLast4) ==
    Response(200, "true", JUndefined,
             PayData(TransactionOf(data), GpaOrderOf(data), FALSE, "", cardLast4),
             "")

\* the response when the clearing succeeded
ClearedResponse(data, cardLast4) ==
    Response(200, "true", JUndefined,
             PayData([TransactionOf(data) EXCEPT !.state = "CLEARED"],
                     GpaOrderOf(data), TRUE, "", cardLast4), "")

\* variant: a clearing failure is reported as a failure of the payment
ClearFailedResponse_Fatal(data, cardLast4) ==
    Response(500, "false", JStr("Payment processing failed"), EmptyObject, "")

\* the response when the clearing threw
ClearFailedResponse(data, cardLast4) ==
    Response(200, "true", JUndefined,
             PayData(TransactionOf(data), GpaOrderOf(data), FALSE,
                     "Transaction authorized but auto-clear failed", cardLast4),
             "")

\* the response when no clearing was attempted
AuthorizedResponse(data, cardLast4) ==
    Response(200, "true", JUndefined,
             PayData(TransactionOf(data), GpaOrderOf(data), FALSE, "", cardLast4),
             "")

\* the catch block of the payment handlers
PayCatch(thrown) ==
    LET e == thrown.error
        msg == IF Truthy(e) THEN JOr(JProp(e, "message"), e)
               ELSE IF Truthy(thrown.message) THEN thrown.message
               ELSE JStr("Payment processing failed")
    IN  [Response(IF thrown.status # 0 THEN thrown.status ELSE 500, "false",
                  msg, EmptyObject, "")
           EXCEPT !.details = IF Truthy(e) THEN e ELSE JUndefined]

\* variant: the PAN is compared after removing whitespace
CardNotFound_Stripped(res, pan) ==
    res.card.kind = "null" \/ res.card.pan # StripWhitespace(pan)

\* !resources.card || resources.card.pan !== pan
CardNotFound(res, pan) == res.card.kind = "null" \/ res.card.pan # pan

CardNotFoundResponse ==
    [Response(404, "undefined",
              JStr("Card not found. Please setup JIT funding first."),
              EmptyObject, "")
       EXCEPT !.hint = "The PAN from the NFC card must match the card created in the system."]

\* variant: the authorization uses the token of the registry's user
NfcCardToken_User(res, pan) == res.user.token

\* variant: the token of the card of the setup run started last
NfcCardToken_Newest(res, pan) == generateToken("card", runs)

\* the card token nfc-pay authorizes against
NfcCardToken(res, pan) == res.card.token

\* nfc-pay handler: validation, card lookup by PAN and authorization
NfcPay(p) ==
    /\ CanStart(p)
    /\ \E method \in Methods, pan \in PanInputs, a \in PaymentAmounts,
          ac \in AutoClearInputs :
         LET r == [NoReq EXCEPT !.handler = "nfc-pay", !.method = method,
                                !.pan = pan, !.hasAmount = a.has,
                                !.amount = a.val, !.autoClear = ac]
         IN  /\ UNCHANGED runs
             /\ IF method # "POST" THEN Reject(p, r, MethodNotAllowed)
                ELSE IF pan = <<>>
                THEN Reject(p, r, BadRequest("PAN (card number) is required"))
                ELSE IF ~panRegexTest(pan)
                THEN Reject(p, r, BadRequest("Invalid PAN format. Must be 13-19 digits"))
                ELSE IF InvalidAmount(r)
                THEN Reject(p, r, BadRequest("Valid amount is required"))
                ELSE IF CardNotFound(resources, pan)
                THEN Reject(p, r, CardNotFoundResponse)
                ELSE Begin(p, r,
                           [NoLocals EXCEPT !.amountInCents = amountInCents(r.amount)],
                           AuthorizationCall(NfcCardToken(resources, pan),
                                             amountInCents(r.amount), ""),
                           "nfc-authorization")

\* what a payment handler does when its authorization has returned
Authorized(p, mayClear, cardLast4, awaiting) ==
    \E reply \in AuthReplies :
        LET r == marqetaRequest(reply)
        IN  /\ UNCHANGED resources
            /\ IF r.threw
               THEN Respond(p, FALSE, loc[p], PayCatch(r.thrown))
               ELSE IF mayClear /\ TransactionToken(r.data) # NoToken
               THEN Continue(p, TRUE, [loc[p] EXCEPT !.transaction = r.data],
                             ClearingCall(TransactionToken(r.data),
                                          loc[p].amountInCents),
                             awaiting)
               ELSE Respond(p, TRUE, [loc[p] EXCEPT !.transaction = r.data],
                            AuthorizedResponse(r.data, cardLast4))

\* what a payment handler does when its clearing has returned
Cleared(p, cleared, failed) ==
    \E reply \in ClearingReplies :
        LET r == marqetaRequest(reply)
        IN  /\ UNCHANGED resources
            /\ IF r.threw THEN Respond(p, FALSE, loc[p], failed)
               ELSE Respond(p, TRUE, loc[p], cleared)

\* nfc-pay: the authorization has returned
NfcPayAuthorized(p) ==
    /\ pc[p] = "nfc-authorization"
    /\ Authorized(p, autoClear(req[p]), Slice4(req[p].pan), "nfc-clearing")

\* nfc-pay: the clearing has returned
NfcPayCleared(p) ==
    /\ pc[p] = "nfc-clearing"
    /\ Cleared(p, ClearedResponse(loc[p].transaction, Slice4(req[p].pan)),
               ClearFailedResponse(loc[p].transaction, Slice4(req[p].pan)))

\* one-click-pay (QR) handler: validation and authorization
OneClickPay(p) ==
    /\ CanStart(p)
    /\ \E method \in Methods, cardToken \in CardTokens, a \in PaymentAmounts,
          ac \in AutoClearInputs :
         LET r == [NoReq EXCEPT !.handler = "one-click-pay", !.method = method,
                                !.cardToken = cardToken, !.hasAmount = a.has,
                                !.amount = a.val, !.autoClear = ac]
         IN  /\ UNCHANGED runs
             /\ IF method # "POST" THEN Reject(p, r, MethodNotAllowed)
                ELSE IF cardToken = NoToken
                THEN Reject(p, r, BadRequest("cardToken is required"))
                ELSE IF InvalidAmount(r)
                THEN Reject(p, r, BadRequest("Valid amount is required"))
                ELSE Begin(p, r,
                           [NoLocals EXCEPT !.amountInCents = amountInCents(r.amount)],
                           AuthorizationCall(cardToken, amountInCents(r.amount), ""),
                           "qr-authorization")

\* one-click-pay: the authorization has returned
OneClickPayAuthorized(p) ==
    /\ pc[p] = "qr-authorization"
    /\ Authorized(p, autoClear(req[p]), <<>>, "qr-clearing")

\* one-click-pay: the clearing has returned
OneClickPayCleared(p) ==
    /\ pc[p] = "qr-clearing"
    /\ Cleared(p, ClearedResponse(loc[p].transaction, <<>>),
               ClearFailedResponse(loc[p].transaction, <<>>))

(***************************************************************************)
(* PIN-gated payment handlers                                              *)
(***************************************************************************)
DEMO_PIN == <<"1", "2", "3", "4", "5", "6">>

\* CARD_PINS[pan]; <<>> stands for undefined
CARD_PINS(pan) == IF pan = Pan1 THEN <<"1", "2", "3", "4", "5", "6">> ELSE <<>>

PinInputs ==
    { <<>>, DEMO_PIN, <<"1", "2", "3", "4", "5">>,
      <<"6", "5", "4", "3", "2", "1">>, DEMO_PIN \o <<"7">> }

PinPans == {<<>>, Pan1, Pan2}

PinCardTokens == {NoToken, <<"card", 1>>}

\* variant: the length of the PIN is not checked
InvalidPinLength_Off(pin) == FALSE

\* pin.length !== 6
InvalidPinLength(pin) == Len(pin) # 6

\* pin !== DEMO_PIN
WrongDemoPin(pin) == pin # DEMO_PIN

\* !correctPin || correctPin !== pin
WrongCardPin(pan, pin) == CARD_PINS(pan) = <<>> \/ CARD_PINS(pan) # pin

Unauthorized(msg) == Response(401, "undefined", JStr(msg), EmptyObject, "")

\* the catch block of the handlers that call fetch themselves
PinCatch(msg) == Response(500, "undefined", JStr(msg), EmptyObject, "")

\* the data member of the response of the handlers that call fetch themselves
PinData(transaction, r) ==
    [kind |-> "pin-payment", transaction |-> transaction, amount |-> r.amount,
     cardLast4 |-> Slice4(r.pan)]

\* what such a handler does when its fetch has returned
Fetched(p) ==
    \E reply \in AuthReplies :
        /\ UNCHANGED resources
        /\ IF reply.net
           THEN Respond(p, FALSE, loc[p], PinCatch("fetch failed"))
           ELSE IF ~reply.ok
           THEN Respond(p, FALSE, loc[p],
                        PinCatch("Marqeta API error: " \o reply.statusText))
           ELSE IF ~reply.parseable
           THEN Respond(p, TRUE, loc[p], PinCatch("Unexpected end of JSON input"))
           ELSE Respond(p, TRUE, loc[p],
                        Response(200, "true", JUndefined,
                                 PinData(reply.body, req[p]), ""))

\* the authorization request built by process-pin-payment (demo PIN)
PinAuthorizationCall(pan, amount) ==
    Call("POST /simulations/cardtransactions/authorization",
         [amount |-> NumToString(Times100(amount)), card_token |-> pan,
          mid |-> "1234567890", network |-> "VISA",
          payment_method |-> "pin_entry"])

\* the request to /v3/transactions built by the other two handlers
PinTransactionCall(pan, amount) ==
    Call("POST /v3/transactions",
         [amount |-> amountInCents(amount), currency |-> "USD",
          card_token |-> pan, payment_method |-> "pin_entry"])

\* the request of a PIN payment by PAN
PinRequest(handler, method, pan, pin, a) ==
    [NoReq EXCEPT !.handler = handler, !.method = method, !.pan = pan,
                  !.pin = pin, !.hasAmount = a.has, !.amount = a.val]

\* !pan || !pin || !amount
MissingPinFields(r) == r.pan = <<>> \/ r.pin = <<>> \/ ~r.hasAmount \/ r.amount = 0

\* process-pin-payment handler with the demo PIN, authorization simulation
ProcessPinPayment(p) ==
    /\ CanStart(p)
    /\ \E method \in Methods, pan \in PinPans, pin \in PinInputs,
          a \in PaymentAmounts :
         LET r == PinRequest("process-pin-payment", method, pan, pin, a)
         IN  /\ UNCHANGED runs
             /\ IF method # "POST" THEN Reject(p, r, MethodNotAllowed)
                ELSE IF MissingPinFields(r)
                THEN Reject(p, r, BadRequest("Missing required fields"))
                ELSE IF InvalidPinLength(pin)
                THEN Reject(p, r, BadRequest("Invalid PIN length"))
                ELSE IF WrongDemoPin(pin)
                THEN Reject(p, r, Unauthorized("Invalid PIN. Use demo PIN: 123456"))
                ELSE Begin(p, r, NoLocals, PinAuthorizationCall(pan, r.amount),
                           "pin-fetch")

\* process-pin-payment handler with the CARD_PINS table
ProcessPinPaymentCardPins(p) ==
    /\ CanStart(p)
    /\ \E method \in Methods, pan \in PinPans, pin \in PinInputs,
          a \in PaymentAmounts :
         LET r == PinRequest("process-pin-payment-card-pins", method, pan, pin, a)
         IN  /\ UNCHANGED runs
             /\ IF method # "POST" THEN Reject(p, r, MethodNotAllowed)
                ELSE IF MissingPinFields(r)
                THEN Reject(p, r, BadRequest("Missing required fields"))
                ELSE IF InvalidPinLength(pin)
                THEN Reject(p, r, BadRequest("Invalid PIN length"))
                ELSE IF WrongCardPin(pan, pin)
                THEN Reject(p, r, Unauthorized("Invalid PIN"))
                ELSE Begin(p, r, NoLocals, PinTransactionCall(pan, r.amount),
                           "pin-fetch")

\* PIN handler with the demo PIN that posts to /v3/transactions
PinPaymentTransactions(p) ==
    /\ CanStart(p)
    /\ \E method \in Methods, pan \in PinPans, pin \in PinInputs,
          a \in PaymentAmounts :
         LET r == PinRequest("pin-payment-transactions", method, pan, pin, a)
         IN  /\ UNCHANGED runs
             /\ IF method # "POST" THEN Reject(p, r, MethodNotAllowed)
                ELSE IF MissingPinFields(r)
                THEN Reject(p, r, BadRequest("Missing required fields"))
                ELSE IF InvalidPinLength(pin)
                THEN Reject(p, r, BadRequest("Invalid PIN length"))
                ELSE IF WrongDemoPin(pin)
                THEN Reject(p, r, Unauthorized("Invalid PIN. Use demo PIN: 123456"))
                ELSE Begin(p, r, NoLocals, PinTransactionCall(pan, r.amount),
                           "pin-fetch")

\* the fetch of one of these three handlers has returned
PinPaymentFetched(p) ==
    /\ pc[p] = "pin-fetch"
    /\ Fetched(p)

\* PIN payment by card token: validation, PIN check and authorization
PinPayByToken(p) ==
    /\ CanStart(p)
    /\ \E method \in Methods, cardToken \in PinCardTokens, pin \in PinInputs,
          a \in PaymentAmounts :
         LET r == [NoReq EXCEPT !.handler = "pin-pay-by-token",
                                !.method = method, !.cardToken = cardToken,
                                !.pin = pin, !.hasAmount = a.has,
                                !.amount = a.val]
         IN  /\ UNCHANGED runs
             /\ IF method # "POST" THEN Reject(p, r, MethodNotAllowed)
                ELSE IF cardToken = NoToken \/ pin = <<>> \/ ~r.hasAmount \/ r.amount = 0
                THEN Reject(p, r, BadRequest("Missing required fields"))
                ELSE IF InvalidPinLength(pin)
                THEN Reject(p, r, BadRequest("Invalid PIN length"))
                ELSE IF WrongDemoPin(pin)
                THEN Reject(p, r, Unauthorized("Invalid PIN. Use demo PIN: 123456"))
                ELSE Begin(p, r,
                           [NoLocals EXCEPT !.amountInCents = amountInCents(r.amount)],
                           AuthorizationCall(cardToken, amountInCents(r.amount), ""),
                           "pin-authorization")

\* PIN payment by card token: the authorization has returned
PinPayByTokenAuthorized(p) ==
    /\ pc[p] = "pin-authorization"
    /\ Authorized(p, TRUE, <<>>, "pin-clearing")

\* PIN payment by card token: the clearing has returned
PinPayByTokenCleared(p) ==
    /\ pc[p] = "pin-clearing"
    /\ Cleared(p,
               [ClearedResponse(loc[p].transaction, TokenSlice4(req[p].cardToken))
                  EXCEPT !.data.amount = AmountField(TRUE, req[p].amount)],
               ClearFailedResponse(loc[p].transaction, <<>>))

Next ==
    \E p \in Procs :
        \/ HandlerSetup(p)
        \/ TestConnectionReturn(p)
        \/ CreateProgramFundingSourceReturn(p)
        \/ CreateCardProductReturn(p)
        \/ CreateUserReturn(p)
        \/ CreateCardReturn(p)
        \/ CreateVelocityControlReturn(p)
        \/ HandlerSimulate(p)
        \/ SimulateReturn(p)
        \/ HandlerClear(p)
        \/ ClearReturn(p)
        \/ HandlerBalance(p)
        \/ BalanceReturn(p)
        \/ HandlerInvalidAction(p)
        \/ NfcPay(p)
        \/ NfcPayAuthorized(p)
        \/ NfcPayCleared(p)
        \/ OneClickPay(p)
        \/ OneClickPayAuthorized(p)
        \/ OneClickPayCleared(p)
        \/ ProcessPinPayment(p)
        \/ ProcessPinPaymentCardPins(p)
        \/ PinPaymentTransactions(p)
        \/ PinPaymentFetched(p)
        \/ PinPayByToken(p)
        \/ PinPayByTokenAuthorized(p)
        \/ PinPayByTokenCleared(p)
        \/ Close(p)

Spec == Init /\ [][Next]_vars

(***************************************************************************)
(* Overlapping setup runs: a second request may arrive while the first is  *)
(* awaiting an upstream call; each of the two handler instances serves one *)
(* request                                                                 *)
(***************************************************************************)
InitOverlap ==
    /\ InitRequests
    /\ InitAux
    /\ overlap = TRUE

NextOverlap ==
    \E p \in Procs :
        \/ HandlerSetup(p)
        \/ TestConnectionReturn(p)
        \/ CreateProgramFundingSourceReturn(p)
        \/ CreateCardProductReturn(p)
        \/ CreateUserReturn(p)
        \/ CreateCardReturn(p)
        \/ CreateVelocityControlReturn(p)

SpecOverlap == InitOverlap /\ [][NextOverlap]_vars

(***************************************************************************)
(* Properties                                                              *)
(***************************************************************************)
\* handler p is serving a POST request of the given handler
Serving(p, handler) ==
    pc[p] # "idle" /\ req[p].handler = handler /\ req[p].method = "POST"

\* handler p is running, or has finished, setupJITFunding
SetupRun(p) == Serving(p, "setup") /\ req[p].action = "setup"

\* the i-th outbound call of p has returned, successfully / with a failure
CallOk(p, i) == i <= Len(outs[p]) /\ outs[p][i]

CallFailed(p, i) == i <= Len(outs[p]) /\ ~outs[p][i]

\* setupJITFunding of p has returned a failure after the funding-source step
AbortedAfterFundingSource(p) ==
    /\ SetupRun(p)
    /\ pc[p] = "done"
    /\ Len(calls[p]) >= 3
    /\ CallFailed(p, Len(calls[p]))

\* C1: if setupJITFunding fails at card-product, user, card or
\* velocity-control creation, it returns a failure result and every registry
\* slot holds the value it held before the call.
C1_AbortLeavesRegistryUnchanged ==
    \A p \in Procs :
        AbortedAfterFundingSource(p) =>
            /\ loc[p].result.returned
            /\ ~loc[p].result.success
            /\ \A slot \in Slots : resources[slot] = pre[p][slot]

\* the funding-source request of p failed and all its other calls succeeded
OnlyFundingSourceFailed(p) ==
    /\ SetupRun(p)
    /\ pc[p] = "done"
    /\ Len(outs[p]) = 6
    /\ \A i \in 1..6 : outs[p][i] = (i # 2)

\* C2: if the probe succeeds, the funding-source creation fails and every
\* later call succeeds, setupJITFunding returns success with
\* fundingSource.token equal to "sandbox_program_funding"; no run returns a
\* failure when the funding-source creation is its only failed call.
C2_FundingSourceFallback ==
    \A p \in Procs :
        /\ OnlyFundingSourceFailed(p) =>
               /\ loc[p].result.returned
               /\ loc[p].result.success
               /\ loc[p].result.fundingSource.token = SandboxToken
               /\ resp[p].success = "true"
               /\ resp[p].data.fundingSource.token = SandboxToken
        /\ (SetupRun(p) /\ loc[p].result.returned /\ ~loc[p].result.success) =>
               \E i \in 1..Len(outs[p]) : i # 2 /\ ~outs[p][i]

C2_Witness ==
    \E p \in Procs :
        /\ OnlyFundingSourceFailed(p)
        /\ loc[p].result.success
        /\ resources.fundingSource.token = SandboxToken

\* setupJITFunding of p has returned success
SetupSucceeded(p) ==
    SetupRun(p) /\ pc[p] = "done" /\ loc[p].result.returned /\ loc[p].result.success

\* C3: in every successful setup run the card-product request carries the
\* token of the funding source the run returns, the card request carries the
\* tokens of the user and the card product the run returns, and the
\* velocity-control request carries the token of the user the run returns.
C3_RequestsCarryReturnedTokens ==
    \A p \in Procs :
        SetupSucceeded(p) =>
            /\ Len(calls[p]) = 6
            /\ calls[p][3].api = "POST /cardproducts"
            /\ calls[p][3].body.funding_source_token = loc[p].result.fundingSource.token
            /\ calls[p][5].api = "POST /cards"
            /\ calls[p][5].body.user_token = loc[p].result.user.token
            /\ calls[p][5].body.card_product_token = loc[p].result.cardProduct.token
            /\ calls[p][6].api = "POST /velocitycontrols"
            /\ calls[p][6].body.user_token = loc[p].result.user.token

C3_Witness ==
    \E p \in Procs :
        /\ SetupSucceeded(p)
        /\ CallFailed(p, 2)
        /\ calls[p][3].body.funding_source_token = SandboxToken
        /\ calls[p][5].body.user_token = generateToken("user", loc[p].id)

\* C4: if the connectivity probe fails, the run returns a failure at once:
\* the probe is the only outbound call of the run, and no registry slot is
\* changed.
C4_ProbeFailureAborts ==
    \A p \in Procs :
        (SetupRun(p) /\ CallFailed(p, 1)) =>
            /\ pc[p] = "done"
            /\ loc[p].result.returned
            /\ ~loc[p].result.success
            /\ resp[p].success = "false"
            /\ calls[p] = <<ProbeCall>>
            /\ resources = pre[p]

C4_Witness ==
    \E p \in Procs :
        /\ SetupRun(p)
        /\ CallFailed(p, 1)
        /\ pc[p] = "done"
        /\ resp[p].status = 500
        /\ pre[p].card.kind = "card"

\* handler p is serving the given action of the dispatcher and has issued
\* its request
Dispatched(p, action) ==
    Serving(p, "setup") /\ req[p].action = action /\ Len(calls[p]) >= 1

\* C5: for every dollar amount a passed to the simulate action, the
\* authorization request carries the amount as the string of a*100 integer
\* cents; simulate with amount 10.00 sends "1000".
C5_SimulateSendsCents ==
    \A p \in Procs :
        Dispatched(p, "simulate") =>
            /\ calls[p][1].body.amount = NumToString(MathRound(Times100(req[p].amount)))
            /\ (req[p].amount = Num(10, 0) =>
                    calls[p][1].body.amount = <<"1", "0", "0", "0">>)

\* a clearing call of p, with the cents amount and the transaction token the
\* code passed to clearTransaction
IsClearing(c) == c.api = "POST /simulations/cardtransactions/authorization.clearing"

\* C6: for every amount c in cents passed to clearTransaction, directly or
\* through the `clear` action, the clearing request carries the amount c/100
\* in dollars and the given transaction token as the preceding related
\* transaction; clear with 1000 cents sends amount 10.
C6_ClearingSendsDollars ==
    \A p \in Procs :
        /\ Dispatched(p, "clear") =>
               /\ IsClearing(calls[p][1])
               /\ Times100(calls[p][1].body.amount) = req[p].amount
               /\ calls[p][1].body.preceding_related_transaction_token
                      = req[p].transactionToken
               /\ (req[p].amount = Num(1000, 0) =>
                       calls[p][1].body.amount = Num(10, 0))
        /\ (pc[p] # "idle" /\ req[p].handler # "setup" /\ Len(calls[p]) >= 2
              /\ IsClearing(calls[p][2])) =>
               /\ Times100(calls[p][2].body.amount) = loc[p].amountInCents
               /\ calls[p][2].body.preceding_related_transaction_token
                      = TransactionToken(loc[p].transaction)

C6_Witness ==
    \E p \in Procs :
        /\ Dispatched(p, "clear")
        /\ req[p].amount = Num(1000, 0)
        /\ calls[p][1].body.amount = Num(10, 0)
        /\ calls[p][1].body.preceding_related_transaction_token = <<"txn", 1>>

ClearingPaths == {"nfc-pay", "one-click-pay", "pin-pay-by-token"}

\* p authorized successfully with a transaction token, attempted the
\* clearing, and the clearing failed
ClearingFailed(p) ==
    /\ \E h \in ClearingPaths : Serving(p, h)
    /\ pc[p] = "done"
    /\ Len(calls[p]) = 2
    /\ CallOk(p, 1)
    /\ CallFailed(p, 2)

\* C7: in every authorize-and-clear path, when the clearing is attempted
\* after a successful authorization and fails, the response is success:true,
\* carries the authorization's transaction unmodified and a non-empty
\* warning.
C7_ClearingFailureIsPartialSuccess ==
    \A p \in Procs :
        ClearingFailed(p) =>
            /\ resp[p].success = "true"
            /\ resp[p].status = 200
            /\ resp[p].data.kind = "payment"
            /\ resp[p].data.transaction = loc[p].transaction.transaction
            /\ resp[p].data.transaction.token # NoToken
            /\ resp[p].data.transaction.state \in TxnStates
            /\ resp[p].data.warning # ""

C7_Witness ==
    \E p \in Procs :
        /\ ClearingFailed(p)
        /\ req[p].handler = "nfc-pay"
        /\ resp[p].data.transaction.state = "PENDING"
        /\ resp[p].data.warning # ""

\* p serves a PAN payment with a positive amount and the PAN of the card
\* that was in the registry when the request arrived
PanMatches(p) ==
    /\ Serving(p, "nfc-pay")
    /\ req[p].hasAmount
    /\ req[p].amount > 0
    /\ pre[p].card.kind # "null"
    /\ req[p].pan = pre[p].card.pan

\* C8: when the registry holds a card and the PAN payment is called with a
\* positive amount and exactly that card's PAN, the authorization is issued
\* against the token of the registry's card, and if the authorization
\* succeeds the response is success:true.
C8_PanPaymentUsesRegistryCard ==
    \A p \in Procs :
        PanMatches(p) =>
            /\ Len(calls[p]) >= 1
            /\ calls[p][1].api = "POST /simulations/cardtransactions/authorization"
            /\ calls[p][1].body.card_token = pre[p].card.token
            /\ (pc[p] = "done" /\ CallOk(p, 1)) =>
                   (resp[p].success = "true" /\ resp[p].status = 200)

C8_Witness ==
    \E p \in Procs :
        /\ PanMatches(p)
        /\ req[p].pan = Pan1
        /\ pc[p] = "done"
        /\ CallOk(p, 1)
        /\ resp[p].success = "true"
        /\ calls[p][1].body.card_token = generateToken("card", 1)

\* p serves a PAN payment whose PAN is not the PAN of the card that was in
\* the registry when the request arrived
PanDiffers(p) ==
    /\ Serving(p, "nfc-pay")
    /\ (pre[p].card.kind = "null" \/ req[p].pan # pre[p].card.pan)

\* C9 as stated: every PAN that is not exactly the PAN of the registry's
\* card fails with CardNotFound and no upstream call is made.
C9_AnyOtherPanIsCardNotFound ==
    \A p \in Procs :
        PanDiffers(p) =>
            /\ pc[p] = "done"
            /\ calls[p] = <<>>
            /\ resp[p].status = 404
            /\ resp[p].error = JStr("Card not found. Please setup JIT funding first.")

\* the request of p passes the checks nfc-pay makes before the card lookup
PassesNfcValidation(p) ==
    /\ req[p].pan # <<>>
    /\ panRegexTest(req[p].pan)
    /\ req[p].hasAmount
    /\ req[p].amount > 0

\* C9 (amended): every PAN that is not exactly the PAN of the registry's
\* card fails without any upstream call; the failure is CardNotFound when the
\* request passes validation (PAN of 13 to 19 digits after removing
\* whitespace, positive amount) and a 400 validation error otherwise.
C9_OtherPanFailsWithoutCall ==
    \A p \in Procs :
        PanDiffers(p) =>
            /\ pc[p] = "done"
            /\ calls[p] = <<>>
            /\ resp[p].success # "true"
            /\ IF PassesNfcValidation(p)
               THEN /\ resp[p].status = 404
                    /\ resp[p].error = JStr("Card not found. Please setup JIT funding first.")
               ELSE resp[p].status = 400

C9_Witness ==
    \E p \in Procs :
        /\ PanDiffers(p)
        /\ pre[p].card.pan = Pan1
        /\ req[p].pan = Pan1Spaced
        /\ PassesNfcValidation(p)
        /\ resp[p].status = 404

PinHandlers ==
    {"process-pin-payment", "process-pin-payment-card-pins",
     "pin-payment-transactions", "pin-pay-by-token"}

\* the PIN the handler of p accepts for the request of p
AcceptedPin(p) ==
    IF req[p].handler = "process-pin-payment-card-pins"
    THEN CARD_PINS(req[p].pan) ELSE DEMO_PIN

\* C10: in every PIN-gated handler a request whose PIN is not exactly 6
\* characters long fails with a validation error, and no outbound call is
\* made unless the PIN has length 6 and equals the accepted PIN.
C10_PinGate ==
    \A p \in Procs : \A h \in PinHandlers :
        Serving(p, h) =>
            /\ Len(req[p].pin) # 6 =>
                   /\ pc[p] = "done"
                   /\ resp[p].status = 400
                   /\ resp[p].success # "true"
                   /\ calls[p] = <<>>
            /\ calls[p] # <<>> =>
                   /\ Len(req[p].pin) = 6
                   /\ req[p].pin = AcceptedPin(p)

C10_Witness ==
    \E p \in Procs :
        /\ Serving(p, "process-pin-payment-card-pins")
        /\ Len(req[p].pin) = 7
        /\ req[p].pan = Pan1
        /\ req[p].amount > 0
        /\ resp[p].status = 400
        /\ calls[p] = <<>>

(***************************************************************************)
(* A PAN payment racing with a setup run, after one completed setup run    *)
(***************************************************************************)
\* the registry after a successful setup run with the given id
RegistryAfterRun(id) ==
    LET fundingSource == Created(FundingSourceCall(id))
        cardProduct == Created(CardProductCall(id, fundingSource.token))
        user == Created(UserCall(id))
        card == Created(CardCall(id, user.token, cardProduct.token))
    IN  [fundingSource |-> fundingSource, cardProduct |-> cardProduct,
         user |-> user, card |-> card,
         velocityControl |-> Created(VelocityControlCall(user.token))]

\* the first setup run has succeeded and its response has been received
AfterFirstRun ==
    /\ resources = RegistryAfterRun(1)
    /\ runs = 1
    /\ pc = [p \in Procs |-> "idle"]
    /\ client = [NoClient EXCEPT !.card = [token |-> resources.card.token,
                                           pan |-> resources.card.pan]]

InitPayRace ==
    /\ AfterFirstRun
    /\ overlap = TRUE
    /\ req = [p \in Procs |-> NoReq]
    /\ loc = [p \in Procs |-> NoLocals]
    /\ calls = [p \in Procs |-> <<>>]
    /\ outs = [p \in Procs |-> <<>>]
    /\ resp = [p \in Procs |-> NoResp]
    /\ pre = [p \in Procs |-> EmptyResources]
    /\ InitAux

NextPayRace ==
    \E p \in Procs :
        \/ HandlerSetup(p)
        \/ TestConnectionReturn(p)
        \/ CreateProgramFundingSourceReturn(p)
        \/ CreateCardProductReturn(p)
        \/ CreateUserReturn(p)
        \/ CreateCardReturn(p)
        \/ CreateVelocityControlReturn(p)
        \/ NfcPay(p)
        \/ NfcPayAuthorized(p)
        \/ NfcPayCleared(p)

SpecPayRace == InitPayRace /\ [][NextPayRace]_vars

\* C27: in the PAN payment the authorization is issued against the token of
\* the card whose PAN matched the request when it was checked, whatever a
\* concurrent setup run writes meanwhile: the card token of the request is
\* that of the card the registry held at the check, and the PAN of that card
\* is the PAN supplied.
C27_AuthorizesTheMatchedCard ==
    \A p \in Procs :
        (Serving(p, "nfc-pay") /\ calls[p] # <<>>) =>
            /\ pre[p].card.pan = req[p].pan
            /\ calls[p][1].body.card_token = pre[p].card.token
            /\ calls[p][1].body.card_token[1] = "card"
            /\ PanOf(calls[p][1].body.card_token[2]) = req[p].pan

\* a setup run has replaced the card while the payment was in flight
C27_Witness ==
    \E p \in Procs :
        /\ Serving(p, "nfc-pay") /\ pc[p] = "done" /\ CallOk(p, 1)
        /\ resources.card.token # pre[p].card.token
        /\ calls[p][1].body.card_token = pre[p].card.token

(***************************************************************************)
(* marqetaRequest on its own, for every response fetch can produce         *)
(***************************************************************************)
Statuses == {200, 201, 204, 400, 401, 404, 409, 500, 503}

\* response.ok
Ok(status) == status >= 200 /\ status <= 299

Bodies ==
    { EmptyObject, JObj("Resource not found", ""), JObj("", "Token already exists"),
      AuthData(<<"txn", 1>>, "PENDING") }

StatusTexts == {"", "Not Found"}

\* what fetch can give marqetaRequest
Fetches ==
    {NetworkError}
    \cup { HttpReply(Ok(status), status, parseable, body, statusText) :
             status \in Statuses, parseable \in BOOLEAN, body \in Bodies,
             statusText \in StatusTexts }

InitRequest ==
    /\ InitRequests
    /\ overlap = FALSE
    /\ held = NotHeld
    /\ page = MountedPage
    /\ request \in { [NoRequest EXCEPT !.reply = reply] : reply \in Fetches }

\* marqetaRequest is applied to what fetch gave
MarqetaRequest ==
    /\ ~request.called
    /\ request' = [request EXCEPT !.called = TRUE,
                                  !.result = marqetaRequest(request.reply)]
    /\ UNCHANGED <<resources, runs, overlap, pc, req, loc, calls, outs, resp,
                   pre, client, held, page>>

NextRequest == MarqetaRequest

SpecRequest == InitRequest /\ [][NextRequest]_vars

\* C23: marqetaRequest returns {status, data} only for a success status, with
\* data the parsed body, or an empty object when the body does not parse; for
\* every other status it returns nothing and throws {status, error} with
\* error the parsed body, or {message: statusText} when the body does not
\* parse.
C23_RequestOutcome ==
    LET reply == request.reply
        r == request.result
    IN  (request.called /\ ~reply.net) =>
            IF reply.status >= 200 /\ reply.status <= 299
            THEN /\ ~r.threw
                 /\ r.status = reply.status
                 /\ r.data = IF reply.parseable THEN reply.body ELSE EmptyObject
            ELSE /\ r.threw
                 /\ r.data = EmptyObject
                 /\ r.thrown.status = reply.status
                 /\ r.thrown.error = IF reply.parseable THEN reply.body
                                      ELSE JObj("", reply.statusText)

\* an error status with an unparseable body has been turned into
\* {message: statusText}
C23_Witness ==
    /\ request.called
    /\ request.reply.status = 503
    /\ ~request.reply.parseable
    /\ request.result.threw
    /\ request.result.thrown.error.message = "Not Found"

(***************************************************************************)
(* getResources: a caller keeps the value it got while setup runs follow   *)
(***************************************************************************)
\* getResources(): `return resources`, the module's object itself
getResources == "resources"

\* what is read through a value of getResources
Deref(ref) == IF ref = "resources" THEN resources ELSE EmptyResources

\* a caller calls getResources and keeps the value
GetResources ==
    /\ held.ref = "none"
    /\ held' = [ref |-> getResources, at |-> Deref(getResources)]
    /\ UNCHANGED <<resources, runs, overlap, pc, req, loc, calls, outs, resp,
                   pre, client, request, page>>

NextSnapshot ==
    \/ GetResources
    \/ \E p \in Procs :
          \/ HandlerSetup(p)
          \/ TestConnectionReturn(p)
          \/ CreateProgramFundingSourceReturn(p)
          \/ CreateCardProductReturn(p)
          \/ CreateUserReturn(p)
          \/ CreateCardReturn(p)
          \/ CreateVelocityControlReturn(p)
          \/ Close(p)

SpecSnapshot == Init /\ [][NextSnapshot]_vars

\* C24: the value returned by getResources is a snapshot: read after a later
\* setup run has written the registry, it still shows the slot contents of
\* the moment it was obtained.
C24_GetResourcesIsSnapshot ==
    held.ref # "none" => Deref(held.ref) = held.at

(***************************************************************************)
(* The PIN entry page (NFCPaymentPage): key presses, the auto-submit timer *)
(* and the payment request                                                 *)
(***************************************************************************)
\* the keys of the numpad that are pressed
PageDigits == {"1", "2"}

\* the numpad buttons are disabled while processing or after success
ButtonsEnabled == ~page.isProcessing /\ ~page.success /\ page.presses < MaxPresses

\* the auto-submit effect, run after a render in which pin has changed: it
\* sets a timer that calls the processPayment of that render
AutoSubmit(pin, timers) ==
    IF Len(pin) = 6 /\ ~page.success /\ ~page.isProcessing
    THEN Append(timers, pin) ELSE timers

\* a key press has set the pin
SetPin(pin) ==
    /\ page' = [page EXCEPT !.pin = pin,
                            !.timers = IF pin # page.pin
                                       THEN AutoSubmit(pin, page.timers)
                                       ELSE page.timers,
                            !.presses = page.presses + 1]
    /\ UNCHANGED <<resources, runs, overlap, pc, req, loc, calls, outs, resp,
                   pre, client, request, held>>

\* handlePinDigit(digit)
HandlePinDigit ==
    /\ ButtonsEnabled
    /\ \E digit \in PageDigits :
         SetPin(IF Len(page.pin) < 6 THEN page.pin \o <<digit>> ELSE page.pin)

\* handleBackspace: pin.slice(0, -1)
HandleBackspace ==
    /\ ButtonsEnabled
    /\ SetPin(IF page.pin = <<>> THEN <<>>
              ELSE SubSeq(page.pin, 1, Len(page.pin) - 1))

\* clearPin
ClearPin ==
    /\ ButtonsEnabled
    /\ SetPin(<<>>)

\* the oldest timer fires: processPayment of the render that set it
TimerFires ==
    /\ page.timers # <<>>
    /\ LET pin == Head(page.timers)
       IN  page' = IF Len(pin) # 6
                   THEN [page EXCEPT !.timers = Tail(page.timers)]
                   ELSE [page EXCEPT !.timers = Tail(page.timers),
                                     !.isProcessing = TRUE,
                                     !.inflight = Append(page.inflight, pin)]
    /\ UNCHANGED <<resources, runs, overlap, pc, req, loc, calls, outs, resp,
                   pre, client, request, held>>

\* the i-th open request without the answered one
Remove(s, i) == SubSeq(s, 1, i - 1) \o SubSeq(s, i + 1, Len(s))

\* a payment request is answered: success or error, then isProcessing false
PaymentAnswered ==
    /\ \E i \in 1..Len(page.inflight), ok \in BOOLEAN :
         page' = [page EXCEPT !.inflight = Remove(page.inflight, i),
                              !.success = page.success \/ ok,
                              !.isProcessing = FALSE]
    /\ UNCHANGED <<resources, runs, overlap, pc, req, loc, calls, outs, resp,
                   pre, client, request, held>>

NextPage ==
    \/ HandlePinDigit
    \/ HandleBackspace
    \/ ClearPin
    \/ TimerFires
    \/ PaymentAnswered

SpecPage == Init /\ [][NextPage]_vars

\* C30: in the PIN entry page the entered PIN never exceeds 6 digits, a
\* payment request is sent only with a 6-digit PIN, and at most one payment
\* request is unanswered at any time, for any sequence of digit, backspace
\* and clear presses and timer firings.
C30_OneRequestInFlight ==
    /\ Len(page.pin) <= 6
    /\ \A i \in 1..Len(page.inflight) : Len(page.inflight[i]) = 6
    /\ Len(page.inflight) <= 1

\* the caller clears, with 1000 cents, the transaction it got by simulating
\* 10.00 on the card of its latest setup
ScenarioClear(p) ==
    /\ Dispatched(p, "clear")
    /\ client.txn # NoToken
    /\ req[p].transactionToken = client.txn
    /\ req[p].amount = Num(1000, 0)

Problem(r) ==
    LET badAmount == ~r.hasAmount \/ r.amount <= 0
    IN  CASE r.action = "setup" -> ""
          [] r.action = "simulate" ->
                IF r.cardToken = NoToken THEN "cardToken is required"
                ELSE IF badAmount THEN "Valid amount is required" ELSE ""
          [] r.action = "clear" ->
                IF r.transactionToken = NoToken THEN "transactionToken is required"
                ELSE IF badAmount THEN "Valid amount is required" ELSE ""
          [] r.action = "balance" ->
                IF r.userToken = NoToken THEN "userToken is required" ELSE ""
          [] OTHER -> "Invalid action"

\* C12: a request to the dispatcher that fails validation (simulate without
\* cardToken or with amount missing or <= 0, clear without transactionToken
\* or with amount missing or <= 0, balance without userToken, any other
\* action) is answered 400 with an error naming the problem, with no outbound
\* call and no registry change.
C12_ValidationMakesNoCall ==
    \A p \in Procs :
        (Serving(p, "setup") /\ Problem(req[p]) # "") =>
            /\ pc[p] = "done"
            /\ calls[p] = <<>>
            /\ outs[p] = <<>>
            /\ resp[p].status = 400
            /\ resp[p].error = JStr(Problem(req[p]))
            /\ resources = pre[p]

C12_Witness ==
    \E p \in Procs :
        /\ Serving(p, "setup") /\ pc[p] = "done"
        /\ req[p].action = "clear"
        /\ req[p].transactionToken # NoToken
        /\ req[p].hasAmount /\ req[p].amount <= 0
        /\ resp[p].error = JStr("Valid amount is required")
        /\ resources.card # Null

\* the balance lookup of p has failed
BalanceFailed(p) ==
    Dispatched(p, "balance") /\ pc[p] = "done" /\ CallFailed(p, 1)

\* C13: for the balance action with a userToken, a failure of the balance
\* lookup is answered 200 success:true with data.gpa null and a non-empty
\* warning, never as a failure.
C13_BalanceFailureIsSuccess ==
    \A p \in Procs :
        BalanceFailed(p) =>
            /\ req[p].userToken # NoToken
            /\ resp[p].status = 200
            /\ resp[p].success = "true"
            /\ resp[p].error = JUndefined
            /\ resp[p].data.gpa = "null"
            /\ resp[p].warning # ""

C13_Witness ==
    \E p \in Procs : BalanceFailed(p) /\ resp[p].data.gpa = "null"

\* a setup run of p has succeeded after an earlier successful setup run
SecondSetupSucceeded(p) == SetupSucceeded(p) /\ client.card.token # NoToken

\* a well-formed PAN payment with the PAN of the setup run before the latest
PaysWithPreviousPan(p) ==
    /\ Serving(p, "nfc-pay")
    /\ client.prevPan # <<>>
    /\ req[p].pan = client.prevPan
    /\ req[p].hasAmount /\ req[p].amount > 0

\* C14: a new setup overwrites the previous one: when a successful setup run
\* follows another, each of the five slots holds the entity of the later run
\* (whose PAN differs from the earlier one's), and a PAN payment with the
\* earlier run's PAN is answered CardNotFound without any outbound call.
C14_NewSetupOverwrites ==
    \A p \in Procs :
        /\ SecondSetupSucceeded(p) =>
              /\ \A slot \in Slots : resources[slot] = loc[p].result[slot]
              /\ resources.card.pan = resp[p].data.card.pan
              /\ resources.card.pan # client.card.pan
        /\ PaysWithPreviousPan(p) =>
              /\ client.prevPan # client.card.pan
              /\ pc[p] = "done"
              /\ calls[p] = <<>>
              /\ resp[p] = CardNotFoundResponse

C14_Witness ==
    \E p \in Procs :
        /\ PaysWithPreviousPan(p)
        /\ resources.card.pan = client.card.pan
        /\ resp[p].status = 404

\* the token of the transaction the authorization of PIN handler p returned
PinTransactionToken(p) ==
    IF req[p].handler = "pin-pay-by-token"
    THEN TransactionToken(loc[p].transaction)
    ELSE IF resp[p].data.kind = "pin-payment"
    THEN TransactionToken(resp[p].data.transaction)
    ELSE NoToken

\* PIN handler p has accepted the PIN and its first call has returned a
\* transaction
PinAuthorized(p) ==
    /\ \E h \in PinHandlers : Serving(p, h)
    /\ pc[p] = "done"
    /\ CallOk(p, 1)
    /\ PinTransactionToken(p) # NoToken

\* C15: every PIN-gated payment handler, once the PIN is accepted, runs the
\* authorize/clear flow of the other payment paths: its first call is the
\* authorization simulation, its second the clearing of the returned
\* transaction, and a clearing failure is answered with the authorized
\* transaction and a warning, not with a failure.
C15_PinHandlersAuthorizeAndClear ==
    \A p \in Procs :
        PinAuthorized(p) =>
            /\ calls[p][1].api = "POST /simulations/cardtransactions/authorization"
            /\ Len(calls[p]) = 2
            /\ IsClearing(calls[p][2])
            /\ calls[p][2].body.preceding_related_transaction_token
                   = PinTransactionToken(p)
            /\ CallFailed(p, 2) =>
                   /\ resp[p].status = 200
                   /\ resp[p].success = "true"
                   /\ resp[p].data.transaction.token = PinTransactionToken(p)
                   /\ resp[p].data.warning # ""

\* p has answered a POST request with a failure
FailureResponse(p) ==
    pc[p] = "done" /\ req[p].method = "POST" /\ resp[p].status >= 400

\* C16: every failure response of every command path (validation failure,
\* CardNotFound, PIN rejection, upstream error, setup failure) carries
\* success equal to false and an error field.
C16_FailuresAreStructured ==
    \A p \in Procs :
        FailureResponse(p) =>
            /\ resp[p].success = "false"
            /\ resp[p].error # JUndefined

\* setupJITFunding of p has returned a failure
SetupAborted(p) ==
    SetupRun(p) /\ pc[p] = "done" /\ loc[p].result.returned /\ ~loc[p].result.success

\* C17: whenever setupJITFunding aborts, the error of the failure result is a
\* non-empty message text, never the raw error payload object and never
\* absent, and the handler passes it on as the error of its response.
C17_AbortErrorIsMessage ==
    \A p \in Procs :
        SetupAborted(p) =>
            /\ loc[p].result.error.type = "string"
            /\ loc[p].result.error.text # ""
            /\ resp[p].error = loc[p].result.error

\* the step of a setup run that writes the slot
StepOf(slot) ==
    CASE slot = "fundingSource" -> "createProgramFundingSource"
      [] slot = "cardProduct" -> "createCardProduct"
      [] slot = "user" -> "createUser"
      [] slot = "card" -> "createCard"
      [] slot = "velocityControl" -> "createVelocityControl"

\* no call of the run of p has failed, the funding-source request aside
NoFatalFailure(p) == \A i \in 1..Len(outs[p]) : i # 2 => outs[p][i]

\* the result of the run of p holds the entities the platform created for
\* the requests of p
OwnEntities(p) ==
    LET result == loc[p].result
    IN  /\ result.fundingSource \in {Created(calls[p][2]), defaultFundingSource}
        /\ result.cardProduct = Created(calls[p][3])
        /\ result.user = Created(calls[p][4])
        /\ result.card = Created(calls[p][5])
        /\ result.velocityControl = Created(calls[p][6])
        /\ \A slot \in {"cardProduct", "user", "card"} :
               result[slot].token[2] = loc[p].id

\* both runs are in flight at once
Overlapping ==
    \A p \in Procs : SetupRun(p) /\ Len(calls[p]) >= 1

\* neither run fails because of the other, and each returns its own entities
RunsIndependent ==
    \A p \in Procs :
        /\ (SetupRun(p) /\ pc[p] = "done" /\ NoFatalFailure(p)) =>
              /\ SetupSucceeded(p)
              /\ resp[p].status = 200
              /\ resp[p].success = "true"
              /\ OwnEntities(p)
        /\ (SetupRun(p) /\ pc[p] # "done") =>
              ENABLED (\/ TestConnectionReturn(p)
                       \/ CreateProgramFundingSourceReturn(p)
                       \/ CreateCardProductReturn(p)
                       \/ CreateUserReturn(p)
                       \/ CreateCardReturn(p)
                       \/ CreateVelocityControlReturn(p))

\* a slot changes only when the step of some run that writes it returns, and
\* after such a step the slot holds the entity that run has got
LastWriteWins ==
    \A slot \in Slots :
        /\ resources'[slot] # resources[slot] =>
              \E p \in Procs : pc[p] = StepOf(slot) /\ pc'[p] # pc[p]
        /\ \A p \in Procs :
              (pc[p] = StepOf(slot) /\ pc'[p] # pc[p] /\ loc'[p][slot] # Null) =>
                  resources'[slot] = loc'[p][slot]

\* C18: when two setup runs overlap, neither fails or blocks because of the
\* other: each run whose own calls succeed returns success with the five
\* entities created for it, and every registry slot holds the value of the
\* run that wrote it last.
C18_OverlappingRunsRace == []RunsIndependent /\ [][LastWriteWins]_vars

\* both runs have succeeded while overlapping and the slots hold entities of
\* different runs
C18_Witness ==
    /\ \A p \in Procs : SetupSucceeded(p) /\ OwnEntities(p)
    /\ resources.card = loc["p1"].result.card
    /\ resources.user = loc["p2"].result.user

\* the outbound calls of a complete setup run, in order
SetupApis ==
    << "GET /cardproducts?count=1", "POST /fundingsources/program",
       "POST /cardproducts", "POST /users", "POST /cards",
       "POST /velocitycontrols" >>

\* C19: within one setup run the outbound calls are the probe, the funding
\* source, the card product, the user, the card and the velocity control, in
\* this order and each at most once; a call is issued only when the previous
\* one has returned; after the first fatal failure (any call but the
\* funding-source request) no further call is made.
C19_SetupCallsInOrder ==
    \A p \in Procs :
        SetupRun(p) =>
            /\ Len(calls[p]) \in 1..Len(SetupApis)
            /\ \A i \in 1..Len(calls[p]) : calls[p][i].api = SetupApis[i]
            /\ Len(outs[p]) = IF pc[p] = "done" THEN Len(calls[p])
                                                ELSE Len(calls[p]) - 1
            /\ \A i \in 1..Len(outs[p]) :
                   (i # 2 /\ ~outs[p][i]) => (Len(calls[p]) = i /\ pc[p] = "done")
            /\ (pc[p] = "done" /\ Len(calls[p]) < Len(SetupApis)) =>
                   (CallFailed(p, Len(calls[p])) /\ ~loc[p].result.success)

\* a run has failed at the card request, after creating three resources
C19_Witness ==
    \E p \in Procs :
        /\ SetupRun(p) /\ pc[p] = "done"
        /\ Len(calls[p]) = 5 /\ CallFailed(p, 5)
        /\ loc[p].user # Null

\* p serves a payment by PAN or by QR / one click and has sent a call
AutoClearPayment(p) ==
    /\ Serving(p, "nfc-pay") \/ Serving(p, "one-click-pay")
    /\ calls[p] # <<>>

\* the authorization of p has returned a transaction token
AuthorizedWithToken(p) ==
    CallOk(p, 1) /\ TransactionToken(loc[p].transaction) # NoToken

\* C20: in the PAN and one-click/QR payment paths there is at most one
\* authorization call and one clearing call per request; the clearing call
\* is issued only after the authorization has returned successfully with a
\* transaction token and only if autoClear is true or omitted, and it is
\* for that transaction; if the authorization fails, or autoClear is false,
\* or no token came back, no clearing call is made.
C20_ClearingOnlyAfterAuthorization ==
    \A p \in Procs :
        AutoClearPayment(p) =>
            /\ Len(calls[p]) <= 2
            /\ calls[p][1].api = "POST /simulations/cardtransactions/authorization"
            /\ Len(calls[p]) = 2 =>
                   /\ IsClearing(calls[p][2])
                   /\ AuthorizedWithToken(p)
                   /\ req[p].autoClear # "false"
                   /\ calls[p][2].body.preceding_related_transaction_token
                          = TransactionToken(loc[p].transaction)
            /\ (pc[p] = "done" /\ (CallFailed(p, 1) \/ req[p].autoClear = "false"
                                     \/ ~AuthorizedWithToken(p))) =>
                   Len(calls[p]) = 1

\* a clearing has followed a successful authorization with autoClear omitted
C20_Witness ==
    \E p \in Procs :
        /\ AutoClearPayment(p)
        /\ req[p].autoClear = "undefined"
        /\ AuthorizedWithToken(p)
        /\ Len(calls[p]) = 2
        /\ IsClearing(calls[p][2])

\* p serves a request other than a setup run
OtherOperation(p) == pc[p] # "idle" /\ ~SetupRun(p)

\* C21: no operation other than setup writes the registry: while simulate,
\* clear, balance or a payment by PAN, QR or PIN is served, and when it has
\* answered, with success or failure, the five slots are as they were when
\* the request arrived; a slot only ever holds nothing or an entity of its
\* own kind, never a transaction.
C21_OnlySetupWritesRegistry ==
    /\ \A p \in Procs : OtherOperation(p) => resources = pre[p]
    /\ \A slot \in Slots : resources[slot].kind \in {"null", slot}

\* a transaction has been cleared while the registry held a card
C21_Witness ==
    \E p \in Procs :
        /\ OtherOperation(p) /\ pc[p] = "done"
        /\ Len(calls[p]) >= 1 /\ IsClearing(Last(calls[p]))
        /\ CallOk(p, Len(calls[p]))
        /\ resources.card # Null

\* C22: in every setup run the velocity-control request carries amount_limit
\* USER_BALANCE_LIMIT (10000 cents), the same as the balance_limit of the
\* run's user request, with currency USD, window DAY and active true.
C22_VelocityLimitIsTheConstant ==
    \A p \in Procs :
        (SetupRun(p) /\ Len(calls[p]) >= 6) =>
            /\ calls[p][6].api = "POST /velocitycontrols"
            /\ calls[p][6].body.amount_limit = 10000
            /\ calls[p][6].body.amount_limit = USER_BALANCE_LIMIT
            /\ calls[p][6].body.amount_limit = calls[p][4].body.balance_limit
            /\ calls[p][6].body.currency_code = "USD"
            /\ calls[p][6].body.velocity_window = "DAY"
            /\ calls[p][6].body.active

C22_Witness ==
    \E p \in Procs :
        /\ SetupRun(p) /\ Len(calls[p]) = 6 /\ runs = 2
        /\ calls[p][6].body.amount_limit = calls[p][4].body.balance_limit

PaymentHandlers == {"nfc-pay", "one-click-pay"} \cup PinHandlers

\* the amount of the request of p is missing, zero or negative
BadAmount(p) == ~req[p].hasAmount \/ req[p].amount <= 0

\* C25: on every payment path (PAN, one-click/QR, PIN-gated) a request whose
\* amount is missing, zero or negative is rejected before any upstream call,
\* so no authorization request is sent with an amount <= 0.
C25_BadAmountIsRejected ==
    \A p \in Procs : \A h \in PaymentHandlers :
        (Serving(p, h) /\ BadAmount(p)) =>
            /\ pc[p] = "done"
            /\ calls[p] = <<>>
            /\ resp[p].status >= 400
            /\ resp[p].success # "true"

\* no setup run is between its first call and its return
NoSetupInFlight == \A p \in Procs : SetupRun(p) => pc[p] = "done"

\* the entities in the five slots refer to one another
SlotsConsistent ==
    /\ resources.card.user_token = resources.user.token
    /\ resources.card.card_product_token = resources.cardProduct.token
    /\ resources.cardProduct.funding_source_token = resources.fundingSource.token
    /\ resources.velocityControl.user_token = resources.user.token

\* C26: whenever no setup run is in flight and the card slot is non-empty,
\* the card's user and card product, the card product's funding source and
\* the velocity control's user are the entities in the registry, after any
\* sequence of setup runs, successful or failed, sequential or overlapping.
C26_SlotsMutuallyConsistent ==
    (NoSetupInFlight /\ resources.card # Null) => SlotsConsistent

\* p serves a payment that authorizes and clears, and has sent both calls
AuthorizedAndClearing(p) ==
    /\ \E h \in ClearingPaths : Serving(p, h)
    /\ Len(calls[p]) = 2

\* C28: in every path that authorizes and then clears, the authorization
\* amount is the integer cents value Math.round(amount * 100) of the request
\* amount, as a string, and 100 times the clearing amount in dollars is that
\* same cents value.
C28_SameMoney ==
    \A p \in Procs :
        AuthorizedAndClearing(p) =>
            LET cents == MathRound(req[p].amount * 100)
            IN  /\ cents % Scale = 0
                /\ calls[p][1].body.amount = NumToString(cents)
                /\ calls[p][2].body.amount * 100 = cents

\* a payment of 10.007 has been authorized for "1001" and cleared for 10.01
C28_Witness ==
    \E p \in Procs :
        /\ AuthorizedAndClearing(p)
        /\ req[p].amount = Num(10, 7)
        /\ calls[p][1].body.amount = <<"1", "0", "0", "1">>
        /\ calls[p][2].body.amount = Num(10, 10)

\* p has answered an authorize-and-clear payment with success
PaymentSucceeded(p) ==
    /\ \E h \in ClearingPaths : Serving(p, h)
    /\ pc[p] = "done"
    /\ resp[p].success = "true"

\* the clearing call of p was made and returned successfully
ClearingSucceeded(p) == Len(calls[p]) = 2 /\ IsClearing(calls[p][2]) /\ CallOk(p, 2)

\* C29: in the authorize-and-clear paths a successful response reports
\* cleared:true and state CLEARED if and only if a clearing call was made and
\* returned successfully; then the transaction is the authorization
\* transaction with only its state replaced by CLEARED, and otherwise it is
\* the transaction as the authorization returned it.
C29_ClearedIffClearingSucceeded ==
    \A p \in Procs :
        PaymentSucceeded(p) =>
            LET authorized == TransactionOf(loc[p].transaction)
                data == resp[p].data
            IN  /\ data.cleared <=> ClearingSucceeded(p)
                /\ (data.transaction.state = "CLEARED") <=> ClearingSucceeded(p)
                /\ data.transaction =
                      IF ClearingSucceeded(p)
                      THEN [authorized EXCEPT !.state = "CLEARED"]
                      ELSE authorized
                /\ ClearingSucceeded(p) => data.transaction.token # NoToken

C29_Witness ==
    \E p \in Procs :
        /\ PaymentSucceeded(p)
        /\ ClearingSucceeded(p)
        /\ req[p].handler = "pin-pay-by-token"
        /\ loc[p].transaction.transaction.state = "DECLINED"
        /\ resp[p].data.transaction.state = "CLEARED"

====
